---- MODULE Spec2Model ----
(***************************************************************************)
(* Call-stack-to-tree reconstruction of the record viewer:                 *)
(* trulens_eval/react_components/record_viewer/src/utils.ts                *)
(*                                                                         *)
(* createTreeFromCalls folds the calls of one record into a tree of        *)
(* StackTreeNode objects; addCallToTree walks one call's stack from the    *)
(* root, one stack cell per (recursive) invocation.                        *)
(*                                                                         *)
(* The tree is kept as an arena: nodes[1] is the root, every other node    *)
(* is appended when the code creates it, and a node's children field is    *)
(* the ordered list of the arena indices of its children.  A timestamp     *)
(* string of the record is an integer of 0..MaxTime; a missing field is    *)
(* Undefined.  A node's raw is the position of the call in                 *)
(* recordJSON.calls (the code stores a reference to the call object),      *)
(* NoRaw when the node has none.                                           *)
(***************************************************************************)
EXTENDS Integers, Sequences, FiniteSets, TLC

\* ---------------------------------------------------------------- bounds
\* Size of one run of the model: the number of calls read plus the number
\* of stack cells of those calls, over all builds of a behaviour.
MaxSize == 6
\* Timestamps are 0..MaxTime.
MaxTime == 1
\* Number of createTreeFromCalls invocations in one behaviour (SpecBuilds).
MaxBuilds == 2
\* Size of what a behaviour with more than one build reads.
MaxRebuild == 3
\* Size of a record all of whose calls have a stack and both timestamps
\* (SpecTimed).
MaxTimedSize == 8

\* ------------------------------------------------------- values of the code
\* `undefined`: a missing field, an optional field never set.
Undefined == -1
\* The time value of `new Date(undefined)`, an invalid date.
NaN == -2
\* `Infinity`, the default of a missing endTime in the match predicate.
Infinity == -3
\* A node without raw.
NoRaw == 0
\* Index of the root in the arena.
Root == 1

Names == {"a", "b"}
AppName == "App"
Times == 0 .. MaxTime

\* perf of a call: missing altogether (present = FALSE), or an object whose
\* start_time and end_time are timestamps or missing.  A perf with both
\* timestamps has start_time <= end_time.
PerfAbsent == [present |-> FALSE, start_time |-> Undefined, end_time |-> Undefined]
CallPerfs ==
    {PerfAbsent} \cup
    {p \in [present : {TRUE},
            start_time : Times \cup {Undefined},
            end_time : Times \cup {Undefined}] :
        (p.start_time # Undefined /\ p.end_time # Undefined)
            => p.start_time <= p.end_time}
\* perf of a call with both timestamps.
TimedPerfs == {p \in CallPerfs : p.present /\ p.start_time # Undefined /\ p.end_time # Undefined}
\* perf of the record itself: both timestamps, an interval of length MaxTime.
RunPerfs ==
    {[present |-> TRUE, start_time |-> s, end_time |-> s + MaxTime] : s \in {0, 1}}

\* args and rets of a call: opaque, carried along.
Payloads == {"payload"}

Stacks(maxLen) == UNION {[1 .. k -> Names] : k \in 0 .. maxLen}
NonEmptyStacks(maxLen) == UNION {[1 .. k -> Names] : k \in 1 .. maxLen}

\* ------------------------------------------------------------ pure helpers
\* getNameFromCell: the name of a stack cell (a cell is its name here).
getNameFromCell(stackCell) == stackCell

\* new Date(x): a missing timestamp gives an invalid date.
NewDate(x) == IF x = Undefined THEN NaN ELSE x

\* Variant of Coalesce: no default, a missing time compares as NaN.
CoalesceNone(a, b) == IF a = Undefined THEN NaN ELSE a

\* a ?? b
Coalesce(a, b) == IF a = Undefined THEN b ELSE a

\* x <= y on time values: false when either is NaN.
Leq(x, y) ==
    /\ x # NaN
    /\ y # NaN
    /\ \/ y = Infinity
       \/ x # Infinity /\ x <= y

\* x >= y
Geq(x, y) == Leq(y, x)

\* getStartAndEndTimes: perf?.x ? new Date(perf.x) : undefined
getStartAndEndTimes(perf) ==
    [startTime |-> IF perf.present /\ perf.start_time # Undefined
                   THEN NewDate(perf.start_time) ELSE Undefined,
     endTime   |-> IF perf.present /\ perf.end_time # Undefined
                   THEN NewDate(perf.end_time) ELSE Undefined]

\* stack[index]: undefined past the end of the stack.
NoCell == "undefined"
StackCell(stack, index) ==
    IF index + 1 \in DOMAIN stack THEN stack[index + 1] ELSE NoCell

\* ------------------------------------------------------------------ nodes
\* The root built by createTreeFromCalls.
RootNode(perf) ==
    [name |-> AppName,
     startTime |-> NewDate(perf.start_time),
     endTime |-> NewDate(perf.end_time),
     raw |-> NoRaw,
     hasChildren |-> TRUE,
     children |-> <<>>]

\* The node pushed at the leaf step: children: undefined.
LeafNode(stackCell, times, callRef) ==
    [name |-> getNameFromCell(stackCell),
     startTime |-> times.startTime,
     endTime |-> times.endTime,
     raw |-> callRef,
     hasChildren |-> FALSE,
     children |-> <<>>]

\* newNode of an intermediate step: children: [], name, nothing else.
PlaceholderNode(stackCell) ==
    [name |-> getNameFromCell(stackCell),
     startTime |-> Undefined,
     endTime |-> Undefined,
     raw |-> NoRaw,
     hasChildren |-> TRUE,
     children |-> <<>>]

\* Variant of CloseNode: the timing is overwritten, raw is only set when the
\* node has none.
CloseNodeKeepsRaw(node, times, callRef) ==
    [node EXCEPT !.startTime = times.startTime,
                 !.endTime = times.endTime,
                 !.raw = IF @ = NoRaw THEN callRef ELSE @]

\* matchingNode.startTime = ...; .endTime = ...; .raw = call
CloseNode(node, times, callRef) ==
    [node EXCEPT !.startTime = times.startTime,
                 !.endTime = times.endTime,
                 !.raw = callRef]

\* if (!tree.children) tree.children = []
EnsureChildren(ns, t) == [ns EXCEPT ![t].hasChildren = TRUE]

\* Variant of Push: the node is put in front of the children (unshift).
PushFront(ns, t, node) ==
    Append([ns EXCEPT ![t].children = <<Len(ns) + 1>> \o @], node)

\* Variant of Push: the node is pushed to the children of the root.
PushUnderRoot(ns, t, node) ==
    Append([ns EXCEPT ![Root].children = Append(@, Len(ns) + 1)], node)

\* tree.children.push(node): the new node gets the next arena index.
Push(ns, t, node) ==
    Append([ns EXCEPT ![t].children = Append(@, Len(ns) + 1)], node)

\* Variant of Matches: the name alone decides.
MatchesNameOnly(node, stackCell, call) ==
    node.name = getNameFromCell(stackCell)

\* Variant of Matches: the start times are compared the wrong way round.
MatchesStartFlipped(node, stackCell, call) ==
    /\ node.name = getNameFromCell(stackCell)
    /\ Geq(Coalesce(node.startTime, 0), NewDate(call.perf.start_time))
    /\ Geq(Coalesce(node.endTime, Infinity), NewDate(call.perf.end_time))

\* The predicate handed to find, for a call that has a perf.
Matches(node, stackCell, call) ==
    /\ node.name = getNameFromCell(stackCell)
    /\ Leq(Coalesce(node.startTime, 0), NewDate(call.perf.start_time))
    /\ Geq(Coalesce(node.endTime, Infinity), NewDate(call.perf.end_time))

\* The find throws a TypeError: getNameFromCell(undefined) on the first
\* child when the stack has no cell at index, call.perf.start_time on the
\* first child of the same name when the call has no perf.
FindThrows(ns, children, stackCell, call) ==
    \/ stackCell = NoCell /\ children # <<>>
    \/ /\ stackCell # NoCell
       /\ ~call.perf.present
       /\ \E i \in DOMAIN children : ns[children[i]].name = getNameFromCell(stackCell)

\* No matching node: find returned undefined.
NoNode == 0

\* Variant of Find: the last child that matches.
FindLast(ns, children, stackCell, call) ==
    LET hits == {i \in DOMAIN children : Matches(ns[children[i]], stackCell, call)}
    IN  IF hits = {} THEN NoNode
        ELSE children[CHOOSE i \in hits : \A j \in hits : i >= j]

\* tree.children.find(...): the first child that matches, NoNode if none.
Find(ns, children, stackCell, call) ==
    LET hits == {i \in DOMAIN children : Matches(ns[children[i]], stackCell, call)}
    IN  IF hits = {} THEN NoNode
        ELSE children[CHOOSE i \in hits : \A j \in hits : i <= j]

\* ------------------------------------------------------------------ state
VARIABLES
    recordJSON,  \* the record handed to createTreeFromCalls: perf and the calls read so far
    fixed,       \* TRUE when recordJSON.calls is the whole list (a record built before)
    callIdx,     \* position in recordJSON.calls of the call of the for loop, 0 before the loop
    nodes,       \* the arena of the tree of the current build, <<>> before it is created
    tree,        \* addCallToTree's parameter tree, an arena index
    index,       \* addCallToTree's parameter index
    pc,          \* "start", "loop", "add", "done" (tree returned), "error" (TypeError thrown)
    results,     \* one entry per finished build: its record, its outcome and its tree
    before       \* history: the arena as it was when the for loop handed over the current call

vars == <<recordJSON, fixed, callIdx, nodes, tree, index, pc, results, before>>

\* Size of a list of calls: the calls and their stack cells.
RECURSIVE SizeOf(_)
SizeOf(calls) ==
    IF calls = <<>> THEN 0
    ELSE 1 + Len(Head(calls).stack) + SizeOf(Tail(calls))

RECURSIVE SumSizes(_)
SumSizes(recs) ==
    IF recs = {} THEN 0
    ELSE LET r == CHOOSE x \in recs : TRUE
         IN  SizeOf(r.calls) + SumSizes(recs \ {r})

\* What the behaviour has read so far, every distinct record counted once.
Used == SumSizes({results[i].record : i \in DOMAIN results} \cup {recordJSON})

\* The calls the list can yield next within the bound.
Limit == IF results = <<>> THEN MaxSize ELSE MaxRebuild
NextCalls ==
    IF Used + 1 > Limit THEN {}
    ELSE [stack : Stacks(Limit - Used - 1), perf : CallPerfs, args : Payloads]

\* The same for a record whose calls all have a stack and both timestamps.
NextTimedCalls ==
    LET used == SizeOf(recordJSON.calls)
    IN  IF used + 2 > MaxTimedSize THEN {}
        ELSE [stack : NonEmptyStacks(MaxTimedSize - used - 1), perf : TimedPerfs,
              args : Payloads]

Result(outcome, ns) == [record |-> recordJSON, outcome |-> outcome, tree |-> ns]

Init ==
    /\ recordJSON \in [perf : RunPerfs, calls : {<<>>}]
    /\ fixed = FALSE
    /\ callIdx = 0
    /\ nodes = <<>>
    /\ tree = Root
    /\ index = 0
    /\ pc = "start"
    /\ results = <<>>
    /\ before = <<>>

\* Variant of NewTree: the children list is one array shared by every
\* build, so the root starts with the nodes of the build before.
NewTreeSharedChildren(ns, perf) ==
    IF ns = <<>> THEN <<RootNode(perf)>>
    ELSE [ns EXCEPT ![Root] = [RootNode(perf) EXCEPT !.children = ns[Root].children]]

\* const tree = { children: [], name: "App", startTime, endTime }
NewTree(ns, perf) == <<RootNode(perf)>>

\* createTreeFromCalls, up to the for loop.
CreateTree ==
    /\ pc = "start"
    /\ nodes' = NewTree(nodes, recordJSON.perf)
    /\ callIdx' = 0
    /\ pc' = "loop"
    /\ UNCHANGED <<recordJSON, fixed, tree, index, results, before>>

\* addCallToTree(tree, call, call.stack, 0) for the call at position i.
EnterCall(i) ==
    /\ callIdx' = i
    /\ before' = nodes
    /\ tree' = Root
    /\ index' = 0
    /\ pc' = "add"

\* One turn of for (const call of recordJSON.calls), or return tree; the
\* list yields a call of nextCalls when it has one more.
Loop(nextCalls) ==
    /\ pc = "loop"
    /\ IF callIdx < Len(recordJSON.calls)
       THEN /\ EnterCall(callIdx + 1)
            /\ UNCHANGED <<recordJSON, fixed, nodes, results>>
       ELSE \/ /\ ~fixed
               /\ \E call \in nextCalls :
                    recordJSON' = [recordJSON EXCEPT !.calls = Append(@, call)]
               /\ EnterCall(callIdx + 1)
               /\ UNCHANGED <<fixed, nodes, results>>
            \/ /\ pc' = "done"
               /\ results' = Append(results, Result("done", nodes))
               /\ UNCHANGED <<recordJSON, fixed, callIdx, nodes, tree, index, before>>

\* The TypeError leaves addCallToTree and createTreeFromCalls.
Throw(ns) ==
    /\ nodes' = ns
    /\ pc' = "error"
    /\ results' = Append(results, Result("error", <<>>))
    /\ UNCHANGED <<recordJSON, fixed, callIdx, tree, index, before>>

\* Variant of Return: the leaf step stores an empty perf object in a call
\* that has none.
ReturnFillsPerf(ns) ==
    /\ nodes' = ns
    /\ pc' = "loop"
    /\ recordJSON' = [recordJSON EXCEPT !.calls[callIdx].perf.present = TRUE]
    /\ UNCHANGED <<fixed, callIdx, tree, index, results, before>>

\* return from the leaf step, back to the for loop.
Return(ns) ==
    /\ nodes' = ns
    /\ pc' = "loop"
    /\ UNCHANGED <<recordJSON, fixed, callIdx, tree, index, results, before>>

\* Variant of Descend: the recursive call is handed tree, not matchingNode.
DescendIntoTree(ns, child) ==
    /\ nodes' = ns
    /\ tree' = tree
    /\ index' = index + 1
    /\ UNCHANGED <<recordJSON, fixed, callIdx, pc, results, before>>

\* addCallToTree(matchingNode, call, stack, index + 1)
Descend(ns, child) ==
    /\ nodes' = ns
    /\ tree' = child
    /\ index' = index + 1
    /\ UNCHANGED <<recordJSON, fixed, callIdx, pc, results, before>>

\* Variant of LeafStep: the assignments go to tree, not to matchingNode.
LeafStepClosesTree(ns, t, matchingNode, stackCell, times, callRef) ==
    IF matchingNode # NoNode
    THEN [ns EXCEPT ![t] = CloseNode(@, times, callRef)]
    ELSE Push(ns, t, LeafNode(stackCell, times, callRef))

\* Variant of LeafStep: every child with the name of the matching one is
\* closed.
LeafStepClosesNamesakes(ns, t, matchingNode, stackCell, times, callRef) ==
    IF matchingNode # NoNode
    THEN [n \in DOMAIN ns |->
             IF /\ \E i \in DOMAIN ns[t].children : ns[t].children[i] = n
                /\ ns[n].name = ns[matchingNode].name
             THEN CloseNode(ns[n], times, callRef)
             ELSE ns[n]]
    ELSE Push(ns, t, LeafNode(stackCell, times, callRef))

\* Variant of LeafStep: a new child is pushed whether or not one matches.
LeafStepAlwaysPush(ns, t, matchingNode, stackCell, times, callRef) ==
    Push(ns, t, LeafNode(stackCell, times, callRef))

\* The leaf step: close the matching child, or push a new one.
LeafStep(ns, t, matchingNode, stackCell, times, callRef) ==
    IF matchingNode # NoNode
    THEN [ns EXCEPT ![matchingNode] = CloseNode(@, times, callRef)]
    ELSE Push(ns, t, LeafNode(stackCell, times, callRef))

\* One invocation of addCallToTree.
AddCallToTree ==
    /\ pc = "add"
    /\ LET call == recordJSON.calls[callIdx]
           stack == call.stack
           stackCell == StackCell(stack, index)
           ns == EnsureChildren(nodes, tree)
           children == ns[tree].children
       IN  IF FindThrows(ns, children, stackCell, call)
           THEN Throw(ns)
           ELSE LET matchingNode == Find(ns, children, stackCell, call)
                IN  IF index = Len(stack) - 1
                    THEN Return(LeafStep(ns, tree, matchingNode, stackCell,
                                         getStartAndEndTimes(call.perf), callIdx))
                    ELSE IF stackCell = NoCell
                    THEN Throw(ns)
                    ELSE IF matchingNode # NoNode
                    THEN Descend(ns, matchingNode)
                    ELSE Descend(Push(ns, tree, PlaceholderNode(stackCell)),
                                 Len(ns) + 1)

\* Another createTreeFromCalls after the last one ended: of a new record, or
\* of a record built before.
NextBuild ==
    /\ pc \in {"done", "error"}
    /\ Len(results) < MaxBuilds
    /\ Used <= MaxRebuild
    /\ \/ /\ recordJSON' \in [perf : RunPerfs, calls : {<<>>}]
          /\ fixed' = FALSE
       \/ /\ \E i \in DOMAIN results : recordJSON' = results[i].record
          /\ fixed' = TRUE
    /\ callIdx' = 0
    /\ pc' = "start"
    /\ UNCHANGED <<nodes, tree, index, results, before>>

\* One build, of any record.
Next == CreateTree \/ Loop(NextCalls) \/ AddCallToTree
Spec == Init /\ [][Next]_vars

\* One build, of a record whose calls all have a stack and both timestamps.
NextTimed == CreateTree \/ Loop(NextTimedCalls) \/ AddCallToTree
SpecTimed == Init /\ [][NextTimed]_vars

\* Builds one after the other.
NextBuilds == Next \/ NextBuild
SpecBuilds == Init /\ [][NextBuilds]_vars

\* ------------------------------------------------------ reading the tree
Calls == recordJSON.calls
HasParent(ns, n) ==
    \E p \in DOMAIN ns : \E i \in DOMAIN ns[p].children : ns[p].children[i] = n
ParentOf(ns, n) ==
    CHOOSE p \in DOMAIN ns : \E i \in DOMAIN ns[p].children : ns[p].children[i] = n

\* Depth of a node, the root at depth 0.
RECURSIVE DepthOf(_, _)
DepthOf(ns, n) ==
    IF n = Root \/ ~HasParent(ns, n) THEN 0
    ELSE 1 + DepthOf(ns, ParentOf(ns, n))

\* The names from the child of the root down to the node.
RECURSIVE PathNames(_, _)
PathNames(ns, n) ==
    IF n = Root \/ ~HasParent(ns, n) THEN <<>>
    ELSE Append(PathNames(ns, ParentOf(ns, n)), ns[n].name)

\* The nodes whose raw is the call at position i.
NodesOfCall(ns, i) == {n \in DOMAIN ns : ns[n].raw = i}

\* The insert of the call at callIdx has just returned.
Inserted == pc = "loop" /\ callIdx >= 1

\* n is anc or below it.
RECURSIVE IsDescendant(_, _, _)
IsDescendant(ns, n, anc) ==
    \/ n = anc
    \/ /\ n # Root
       /\ HasParent(ns, n)
       /\ IsDescendant(ns, ParentOf(ns, n), anc)

\* The nodes from the child of the root down to n.
PathNodes(ns, n) == {m \in DOMAIN ns : m # Root /\ IsDescendant(ns, n, m)}

\* A call with both timestamps, and its interval.
Timed(call) ==
    call.perf.present /\ call.perf.start_time # Undefined /\ call.perf.end_time # Undefined
Within(inner, outer) ==
    /\ outer.perf.start_time <= inner.perf.start_time
    /\ inner.perf.end_time <= outer.perf.end_time
StrictlyWithin(inner, outer) ==
    /\ Within(inner, outer)
    /\ \/ outer.perf.start_time < inner.perf.start_time
       \/ inner.perf.end_time < outer.perf.end_time
Disjoint(c1, c2) ==
    \/ c1.perf.end_time < c2.perf.start_time
    \/ c2.perf.end_time < c1.perf.start_time
ProperPrefix(s, t) == Len(s) < Len(t) /\ SubSeq(t, 1, Len(s)) = s

\* The match of the algorithm as the specification words it: the same
\* name, a start that is absent or not later, an end that is absent or not
\* earlier.
Encloses(node, name, call) ==
    /\ node.name = name
    /\ node.startTime = Undefined \/ node.startTime <= call.perf.start_time
    /\ node.endTime = Undefined \/ node.endTime >= call.perf.end_time

\* A node that stands for an ancestor frame only: no timing, no raw.
IsPlaceholder(node) ==
    node.raw = NoRaw /\ node.startTime = Undefined /\ node.endTime = Undefined

\* The call addCallToTree is working on, and its cell at index.
CurrentCall == Calls[callIdx]
CurrentCell == StackCell(CurrentCall.stack, index)
AtLeafStep == pc = "add" /\ index = Len(CurrentCall.stack) - 1

\* m is the first child of its parent that encloses the call under m's name.
FirstEnclosing(ns, m, call) ==
    LET ch == ns[ParentOf(ns, m)].children
    IN  /\ Encloses(ns[m], ns[m].name, call)
        /\ \A i, j \in DOMAIN ch :
              (ch[j] = m /\ i < j) => ~Encloses(ns[ch[i]], ns[m].name, call)

\* ----------------------------------------------------------------- claims
\* The predicates of the claims (Encloses, Within, Disjoint, ...) are worded
\* from the specification of the algorithm, not from the code: Matches,
\* Find and LeafStep above are the code.

\* C1: in every state of a build once the tree exists, the root is named
\* "App", has no raw, and its startTime and endTime are the record's
\* perf.start_time and perf.end_time: no insert overwrites them.
C1_RootInvariant ==
    pc # "start" =>
        /\ nodes[Root].name = AppName
        /\ nodes[Root].raw = NoRaw
        /\ nodes[Root].startTime = recordJSON.perf.start_time
        /\ nodes[Root].endTime = recordJSON.perf.end_time

\* A build that returned after two calls, the second one closing a node
\* that was already a child of the root.
C1_Witness ==
    /\ pc = "done"
    /\ Len(Calls) = 2
    /\ \E i \in DOMAIN nodes[Root].children :
          /\ nodes[Root].children[i] \in DOMAIN before
          /\ nodes[nodes[Root].children[i]].raw = 2
    /\ nodes[Root].startTime = 1

\* C2: right after the insert of a call with a stack of length k >= 1,
\* exactly one node has the call as raw, it is at depth k, and the names on
\* the path from the root to it are the names of the stack, in order.
C2_DepthCorrectness ==
    Inserted =>
        LET stack == Calls[callIdx].stack
            own == NodesOfCall(nodes, callIdx)
        IN  /\ Len(stack) >= 1
            /\ Cardinality(own) = 1
            /\ \A n \in own :
                  /\ DepthOf(nodes, n) = Len(stack)
                  /\ PathNames(nodes, n) = stack

\* The second call of a record, with two stack cells of different names,
\* inserted at depth 2.
C2_Witness ==
    /\ Inserted
    /\ callIdx = 2
    /\ Len(Calls[2].stack) = 2
    /\ Calls[2].stack[1] # Calls[2].stack[2]
    /\ \E n \in NodesOfCall(nodes, 2) : DepthOf(nodes, n) = 2

\* Calls a (earlier) and b of the record: a's own frame is an ancestor
\* frame of b at the same position, and a's interval strictly contains b's.
ContainmentCase(a, b) ==
    /\ a < b
    /\ Timed(Calls[a]) /\ Timed(Calls[b])
    /\ Len(Calls[a].stack) >= 1
    /\ ProperPrefix(Calls[a].stack, Calls[b].stack)
    /\ StrictlyWithin(Calls[b], Calls[a])

\* b's node is below a's, and b's insert added no child to the parent of
\* a's node.
NestsUnder(nA) ==
    /\ \A nB \in NodesOfCall(nodes, callIdx) : IsDescendant(nodes, nB, nA)
    /\ nodes[ParentOf(nodes, nA)].children = before[ParentOf(before, nA)].children

\* C3 as stated: right after the insert of B, for every earlier call A
\* whose node is still in the tree, whose own frame is an ancestor frame
\* of B and whose interval strictly contains B's, B's node is a descendant
\* of A's node and no sibling was added next to A's node.
C3_ContainmentAsStated ==
    Inserted =>
        \A a \in 1 .. callIdx - 1 :
            ContainmentCase(a, callIdx) =>
                \A nA \in NodesOfCall(before, a) : NestsUnder(nA)

\* C3 amended: the same, for an A whose node (still with A as raw) and
\* the nodes above it are each, when B is inserted, the first child of
\* their parent that encloses B (same name, start absent or not later, end
\* absent or not earlier).
C3_ContainmentFirstEnclosing ==
    Inserted =>
        \A a \in 1 .. callIdx - 1 :
            ContainmentCase(a, callIdx) =>
                \A nA \in NodesOfCall(before, a) :
                    (\A m \in PathNodes(before, nA) :
                        FirstEnclosing(before, m, Calls[callIdx]))
                    => NestsUnder(nA)

\* B, the third call, inserted below the node of A, the second call, which
\* has an earlier sibling of the same name (the node of the first call).
C3_Witness ==
    /\ Inserted
    /\ callIdx = 3
    /\ ContainmentCase(2, 3)
    /\ \E nA \in NodesOfCall(before, 2) :
          /\ \A m \in PathNodes(before, nA) : FirstEnclosing(before, m, Calls[3])
          /\ NestsUnder(nA)
          /\ \E nB \in NodesOfCall(nodes, 3) : nB # nA
          /\ \E nX \in NodesOfCall(before, 1) :
                /\ nX < nA
                /\ ParentOf(before, nX) = ParentOf(before, nA)
                /\ before[nX].name = before[nA].name

\* C4: a record of two calls with the same non-empty stack and disjoint
\* intervals, in either order, gives two separate nodes for their own
\* frame, children of the same node, each with its own call as raw and that
\* call's interval.
C4_DisjointSiblings ==
    (/\ pc = "done"
     /\ Len(Calls) = 2
     /\ Timed(Calls[1]) /\ Timed(Calls[2])
     /\ Calls[1].stack = Calls[2].stack
     /\ Calls[1].stack # <<>>
     /\ Disjoint(Calls[1], Calls[2]))
    => /\ Cardinality(NodesOfCall(nodes, 1)) = 1
       /\ Cardinality(NodesOfCall(nodes, 2)) = 1
       /\ \A n1 \in NodesOfCall(nodes, 1), n2 \in NodesOfCall(nodes, 2) :
             /\ n1 # n2
             /\ ParentOf(nodes, n1) = ParentOf(nodes, n2)
             /\ \A i \in 1 .. 2 :
                   LET n == IF i = 1 THEN n1 ELSE n2
                   IN  /\ nodes[n].name = Calls[i].stack[Len(Calls[i].stack)]
                       /\ nodes[n].startTime = Calls[i].perf.start_time
                       /\ nodes[n].endTime = Calls[i].perf.end_time
                       /\ PathNames(nodes, n) = Calls[i].stack

\* Two calls of stack <<a, b>>, the later interval first, built into two
\* siblings under one node.
C4_Witness ==
    /\ pc = "done"
    /\ Len(Calls) = 2
    /\ Calls[1].stack = Calls[2].stack
    /\ Len(Calls[1].stack) = 2
    /\ Timed(Calls[1]) /\ Timed(Calls[2])
    /\ Calls[2].perf.end_time < Calls[1].perf.start_time
    /\ \E n1 \in NodesOfCall(nodes, 1), n2 \in NodesOfCall(nodes, 2) :
          n1 # n2 /\ ParentOf(nodes, n1) = ParentOf(nodes, n2)

\* C5: when the leaf step of a call with both timestamps finds, as the
\* first child that encloses the call, a placeholder of the name of the
\* call's own frame, that node gets the call's startTime, endTime and raw
\* and keeps its children, and no node is added: the children of tree are
\* the same as before.
C5_IdempotentLeafClosing ==
    [][(AtLeafStep /\ Timed(CurrentCall)) =>
          \A i \in DOMAIN nodes[tree].children :
              LET m == nodes[tree].children[i]
              IN  (/\ IsPlaceholder(nodes[m])
                   /\ nodes[m].name = CurrentCell
                   /\ FirstEnclosing(nodes, m, CurrentCall))
                  => /\ pc' = "loop"
                     /\ Len(nodes') = Len(nodes)
                     /\ nodes'[tree].children = nodes[tree].children
                     /\ nodes'[m] = [nodes[m] EXCEPT
                            !.startTime = CurrentCall.perf.start_time,
                            !.endTime = CurrentCall.perf.end_time,
                            !.raw = callIdx]]_vars

\* A placeholder with a child, closed by the insert that just returned.
C5_Witness ==
    /\ Inserted
    /\ Timed(CurrentCall)
    /\ \E m \in DOMAIN before :
          /\ m # Root
          /\ IsPlaceholder(before[m])
          /\ before[m].children # <<>>
          /\ nodes[m].raw = callIdx
          /\ nodes[m].children = before[m].children
          /\ Len(nodes) = Len(before)

\* The tree the claim C6 describes for a parent call p with stack s and a
\* child call c with stack s and one more cell: one node per cell of s, the
\* last one closed by p, with the one child closed by c.
ChainTree(p, c) ==
    LET s == Calls[p].stack
        k == Len(s)
    IN  [i \in 1 .. k + 2 |->
            IF i = 1
            THEN [RootNode(recordJSON.perf) EXCEPT !.children = <<2>>]
            ELSE IF i <= k
            THEN [name |-> s[i - 1], startTime |-> Undefined, endTime |-> Undefined,
                  raw |-> NoRaw, hasChildren |-> TRUE, children |-> <<i + 1>>]
            ELSE IF i = k + 1
            THEN [name |-> s[k], startTime |-> Calls[p].perf.start_time,
                  endTime |-> Calls[p].perf.end_time,
                  raw |-> p, hasChildren |-> TRUE, children |-> <<k + 2>>]
            ELSE [name |-> Calls[c].stack[k + 1],
                  startTime |-> Calls[c].perf.start_time,
                  endTime |-> Calls[c].perf.end_time,
                  raw |-> c, hasChildren |-> FALSE, children |-> <<>>]]

ParentAndChild(p, c) ==
    /\ Timed(Calls[p]) /\ Timed(Calls[c])
    /\ Len(Calls[p].stack) >= 1
    /\ Len(Calls[c].stack) = Len(Calls[p].stack) + 1
    /\ ProperPrefix(Calls[p].stack, Calls[c].stack)
    /\ Within(Calls[c], Calls[p])

\* C6: a record of a parent call and its nested child call (the parent's
\* stack and one more cell, the child's interval inside the parent's), in
\* either order, gives the same tree: the chain of the parent's cells, the
\* last one closed by the parent, with one child closed by the child call.
C6_ParentChildOrder ==
    (pc = "done" /\ Len(Calls) = 2) =>
        /\ ParentAndChild(1, 2) => nodes = ChainTree(1, 2)
        /\ ParentAndChild(2, 1) => nodes = ChainTree(2, 1)

\* The child call first, the parent call with a stack of two cells second.
C6_Witness ==
    /\ pc = "done"
    /\ Len(Calls) = 2
    /\ ParentAndChild(2, 1)
    /\ Len(Calls[2].stack) = 2
    /\ nodes = ChainTree(2, 1)

\* C7 as stated: the insert of a call with an empty stack raises no error
\* and leaves the tree as it was.
C7_EmptyStackNoOp ==
    (callIdx >= 1 /\ pc # "add" /\ CurrentCall.stack = <<>>) =>
        /\ pc # "error"
        /\ nodes = before

\* C8 as stated: the insert of a call (with a stack) whose perf, start_time
\* or end_time is missing raises no error, and the call's node has no
\* startTime, or no endTime, where the call has none.
C8_MissingTimingNoError ==
    (callIdx >= 1 /\ pc # "add" /\ CurrentCall.stack # <<>> /\ ~Timed(CurrentCall)) =>
        /\ pc # "error"
        /\ Inserted =>
              \A n \in NodesOfCall(nodes, callIdx) :
                  /\ CurrentCall.perf.start_time = Undefined => nodes[n].startTime = Undefined
                  /\ CurrentCall.perf.end_time = Undefined => nodes[n].endTime = Undefined

\* The positions, in the children of tree, of the children that enclose the
\* current call under the name of its cell at index.
EnclosingChildren ==
    {i \in DOMAIN nodes[tree].children :
        Encloses(nodes[nodes[tree].children[i]], CurrentCell, CurrentCall)}

\* C9: at a step of addCallToTree for a call with both timestamps, when
\* more than one child of tree encloses the call under the cell's name,
\* the first of them in the children list is the one closed (leaf step) or
\* descended into (otherwise), and the others are left as they were.
C9_FirstMatchWins ==
    [][(pc = "add" /\ Timed(CurrentCall) /\ Cardinality(EnclosingChildren) > 1) =>
          LET ch == nodes[tree].children
              first == CHOOSE i \in EnclosingChildren : \A j \in EnclosingChildren : i <= j
          IN  /\ \A j \in EnclosingChildren \ {first} : nodes'[ch[j]] = nodes[ch[j]]
              /\ Len(nodes') = Len(nodes)
              /\ IF index = Len(CurrentCall.stack) - 1
                 THEN /\ pc' = "loop"
                      /\ nodes'[ch[first]].raw = callIdx
                      /\ nodes'[ch[first]].startTime = CurrentCall.perf.start_time
                      /\ nodes'[ch[first]].endTime = CurrentCall.perf.end_time
                 ELSE /\ pc' = "add"
                      /\ tree' = ch[first]
                      /\ index' = index + 1]_vars

\* The insert that just returned closed a child of the root that was not
\* the only one to enclose the call: a later sibling did too, and is
\* unchanged.
C9_Witness ==
    /\ Inserted
    /\ Timed(CurrentCall)
    /\ Len(nodes) = Len(before)
    /\ \E i, j \in DOMAIN before[Root].children :
          LET m == before[Root].children[i]
              o == before[Root].children[j]
          IN  /\ i < j
              /\ Encloses(before[m], CurrentCall.stack[1], CurrentCall)
              /\ Encloses(before[o], CurrentCall.stack[1], CurrentCall)
              /\ nodes[m].raw = callIdx
              /\ before[m].raw # callIdx
              /\ nodes[o] = before[o]

\* C10: two finished builds of the same record have the same outcome and
\* the same tree (names, timings, raw, child order), whatever was built in
\* between; and every build starts from a tree that holds the root of its
\* own record and nothing else.
C10_Determinism ==
    /\ \A i, j \in DOMAIN results :
          results[i].record = results[j].record =>
              /\ results[i].outcome = results[j].outcome
              /\ results[i].tree = results[j].tree
    /\ (pc = "loop" /\ callIdx = 0) => nodes = <<RootNode(recordJSON.perf)>>

\* A record with a call that pushes a node at every build (it has no
\* end_time), built twice with the same tree.
C10_Witness ==
    /\ Len(results) = 2
    /\ results[1].record = results[2].record
    /\ results[1].outcome = "done"
    /\ results[1].tree = results[2].tree
    /\ Len(results[1].tree) >= 2
    /\ \E i \in DOMAIN results[1].record.calls :
          ~Timed(results[1].record.calls[i])

\* C11: no step of a build changes the record: its perf stays, and every
\* call read so far keeps its stack, perf and payload (the list only yields
\* further calls).
C11_InputUnchanged ==
    [][/\ recordJSON'.perf = recordJSON.perf
       /\ Len(recordJSON'.calls) >= Len(Calls)
       /\ \A i \in DOMAIN Calls : recordJSON'.calls[i] = Calls[i]]_vars

\* A finished build of two calls, the first without perf, both in the tree.
C11_Witness ==
    /\ pc = "done"
    /\ Len(Calls) = 2
    /\ ~Calls[1].perf.present
    /\ Calls[1].args \in Payloads
    /\ NodesOfCall(nodes, 1) # {}
    /\ NodesOfCall(nodes, 2) # {}

\* A node with both timestamps, and one interval inside another.
HasTiming(node) == node.startTime # Undefined /\ node.endTime # Undefined
LiesInside(node, parent) ==
    parent.startTime <= node.startTime /\ node.endTime <= parent.endTime
\* Every call read so far has an interval inside the interval of the run.
WellFormedCalls ==
    \A i \in DOMAIN Calls :
        /\ Timed(Calls[i])
        /\ Calls[i].perf.start_time <= Calls[i].perf.end_time
        /\ Within(Calls[i], recordJSON)

\* C12: when the calls are well formed, every node that has timing and
\* whose parent has timing lies inside the interval of its parent.
C12_NestingWithinParent ==
    (pc # "start" /\ WellFormedCalls) =>
        \A n \in DOMAIN nodes :
            (n # Root /\ HasParent(nodes, n)) =>
                LET parent == nodes[ParentOf(nodes, n)]
                IN  (HasTiming(nodes[n]) /\ HasTiming(parent)) =>
                        LiesInside(nodes[n], parent)

\* C13: after the build of a run whose calls all have a stack, every call
\* is the raw of exactly one node of the tree.
C13_NoInvocationLost ==
    (pc = "done" /\ \A i \in DOMAIN Calls : Calls[i].stack # <<>>) =>
        \A i \in DOMAIN Calls : Cardinality(NodesOfCall(nodes, i)) = 1

\* n and the nodes below it.
RECURSIVE Below(_, _)
Below(ns, n) ==
    {n} \cup UNION {Below(ns, ns[n].children[i]) : i \in DOMAIN ns[n].children}

\* path is the beginning of the stack of a call whose insert has begun (the
\* calls at positions 1 .. callIdx).
PathOfSomeCall(path) ==
    \E i \in 1 .. callIdx :
        /\ Len(Calls[i].stack) >= Len(path)
        /\ SubSeq(Calls[i].stack, 1, Len(path)) = path

\* Every node below n, reached by the names path and then its own, has the
\* path of some call.
RECURSIVE PathsOfCalls(_, _, _)
PathsOfCalls(ns, n, path) ==
    \A i \in DOMAIN ns[n].children :
        LET child == ns[n].children[i]
            names == Append(path, ns[child].name)
        IN  PathOfSomeCall(names) /\ PathsOfCalls(ns, child, names)

\* C14: every node other than the root is reached from the root, and the
\* names on its path, n1 .. nd at depth d, are the first d frames of the
\* stack of a call whose insert has begun.
C14_Reachability ==
    pc # "start" =>
        /\ Below(nodes, Root) = DOMAIN nodes
        /\ PathsOfCalls(nodes, Root, <<>>)

\* A placeholder at depth 1 and a closed node at depth 2 whose paths come
\* from different calls, seen in the middle of a third insert.
C14_Witness ==
    /\ pc = "add"
    /\ callIdx = 3
    /\ \E n, m \in DOMAIN nodes :
           /\ DepthOf(nodes, n) = 2
           /\ nodes[n].raw = 1
           /\ DepthOf(nodes, m) = 1
           /\ nodes[m].raw = 2
           /\ PathNames(nodes, m) # SubSeq(PathNames(nodes, n), 1, 1)

\* The timestamps a call carries, absent when it has no perf.
StartOf(call) == IF call.perf.present THEN call.perf.start_time ELSE Undefined
EndOf(call) == IF call.perf.present THEN call.perf.end_time ELSE Undefined

\* A node with a raw is the own frame of that call: its name is the last
\* frame of the call's stack, its depth the length of the stack, its times
\* the call's; a node without raw has no times.
ClosedOrPlaceholder(node, depth) ==
    IF node.raw # NoRaw
    THEN /\ node.raw \in 1 .. callIdx
         /\ LET call == Calls[node.raw]
            IN  /\ Len(call.stack) = depth
                /\ node.name = call.stack[depth]
                /\ node.startTime = StartOf(call)
                /\ node.endTime = EndOf(call)
    ELSE node.startTime = Undefined /\ node.endTime = Undefined

RECURSIVE ClosedBelow(_, _, _)
ClosedBelow(ns, n, depth) ==
    \A i \in DOMAIN ns[n].children :
        /\ ClosedOrPlaceholder(ns[ns[n].children[i]], depth + 1)
        /\ ClosedBelow(ns, ns[n].children[i], depth + 1)

\* C15: a node other than the root has a raw only as the deepest frame of a
\* processed call, with that call's last frame name, stack length and perf
\* times; a node without raw has no startTime and no endTime; and the call
\* just inserted is the raw of some node.
C15_ClosedNodes ==
    pc # "start" =>
        /\ ClosedBelow(nodes, Root, 0)
        /\ Inserted => NodesOfCall(nodes, callIdx) # {}

\* The second call has closed a placeholder left by the first, whose own
\* node carries a raw and no timing.
C15_Witness ==
    /\ Inserted
    /\ callIdx = 2
    /\ \E n \in DOMAIN before : IsPlaceholder(before[n]) /\ nodes[n].raw = 2
    /\ \E m \in DOMAIN nodes : nodes[m].raw = 1 /\ ~HasTiming(nodes[m])

\* s is the beginning of t, and what t adds are nodes the arena ns lacks.
ExtendedByNew(s, t, ns) ==
    /\ Len(s) <= Len(t)
    /\ SubSeq(t, 1, Len(s)) = s
    /\ \A i \in DOMAIN t : i > Len(s) => t[i] \notin DOMAIN ns

\* C16: no step of the fold removes, renames or moves a node: the arena
\* keeps every node with its name, and every children list keeps its
\* elements in place, growing only at its end and only by new nodes.
C16_ChildrenAppendOnly ==
    [][pc # "start" =>
          /\ Len(nodes') >= Len(nodes)
          /\ \A n \in DOMAIN nodes :
                 /\ nodes'[n].name = nodes[n].name
                 /\ ExtendedByNew(nodes[n].children, nodes'[n].children, nodes)]_vars

\* Two children of the root in the order of their calls, the later one
\* earlier in time.
C16_Witness ==
    /\ pc = "done"
    /\ Len(nodes[Root].children) = 2
    /\ LET first == nodes[nodes[Root].children[1]]
           second == nodes[nodes[Root].children[2]]
       IN  /\ first.raw = 1
           /\ second.raw = 2
           /\ HasTiming(first)
           /\ HasTiming(second)
           /\ second.endTime < first.startTime

\* The nodes the current insert has added so far, and the nodes from before
\* it whose startTime, endTime or raw it has changed.
NewNodes == (Len(before) + 1) .. Len(nodes)
ChangedNodes ==
    {n \in DOMAIN before :
        \/ nodes[n].startTime # before[n].startTime
        \/ nodes[n].endTime # before[n].endTime
        \/ nodes[n].raw # before[n].raw}

\* The new nodes hang one below the other: the first is the last child of a
\* node from before the insert, each further one the only child of the one
\* added just before it, and the last one has no child.
NewNodesOnOnePath ==
    \A n \in NewNodes :
        /\ IF n = Len(before) + 1
           THEN \E p \in DOMAIN before :
                    /\ nodes[p].children = Append(before[p].children, n)
                    /\ \A q \in DOMAIN before \ {p} :
                           nodes[q].children = before[q].children
           ELSE nodes[n - 1].children = <<n>>
        /\ n = Len(nodes) => nodes[n].children = <<>>

\* C17: during and after the insert of a call with a stack of k >= 1
\* frames, at most k nodes are new and they lie on one path from a node of
\* the old tree downwards; a new node of an intermediate step is a
\* placeholder (no timing, no raw) with no child when it is made; while the
\* walk goes down no old node changes, and after the leaf step at most one
\* old node has changed startTime, endTime or raw, the node now carrying
\* the call; every old node keeps its name.
C17_FrameOfInsert ==
    (pc \in {"add", "loop"} /\ callIdx >= 1 /\ CurrentCall.stack # <<>>) =>
        /\ Cardinality(NewNodes) <= Len(CurrentCall.stack)
        /\ NewNodesOnOnePath
        /\ \A n \in DOMAIN before : nodes[n].name = before[n].name
        /\ pc = "add" =>
               /\ Cardinality(NewNodes) <= index
               /\ ChangedNodes = {}
               /\ \A n \in NewNodes : IsPlaceholder(nodes[n]) /\ nodes[n].hasChildren
               /\ NewNodes # {} => tree = Len(nodes)
        /\ pc = "loop" =>
               /\ Cardinality(ChangedNodes) <= 1
               /\ ChangedNodes \subseteq NodesOfCall(nodes, callIdx)
               /\ \A n \in NewNodes :
                      IsPlaceholder(nodes[n]) \/ (n = Len(nodes) /\ nodes[n].raw = callIdx)
               /\ ChangedNodes # {} => NewNodes = {}

\* The insert of a call with two frames has ended: it added a placeholder
\* and a leaf below a node of the old tree.
C17_Witness ==
    /\ Inserted
    /\ callIdx = 2
    /\ Len(CurrentCall.stack) = 2
    /\ Cardinality(NewNodes) = 2
    /\ Len(before) >= 2

\* The node the walk stands on has a child named after the next frame that
\* has no startTime and no endTime.
HasUnclosedChild ==
    \E i \in DOMAIN nodes[tree].children :
        LET child == nodes[nodes[tree].children[i]]
        IN  /\ child.name = CurrentCell
            /\ child.startTime = Undefined
            /\ child.endTime = Undefined

\* C18: when the node the walk stands on has a child without timing named
\* after the next frame, the step matches an existing child, whatever the
\* timing of the call: it raises no error and appends no child. (Stated for
\* the calls that carry a perf object, with any of its timestamps missing.)
C18_UnclosedMatchesByName ==
    [][(/\ pc = "add"
        /\ CurrentCell # NoCell
        /\ CurrentCall.perf.present
        /\ HasUnclosedChild) =>
           /\ pc' # "error"
           /\ Len(nodes') = Len(nodes)
           /\ nodes'[tree].children = nodes[tree].children]_vars

\* C19: the build ends by its return and in no other way, so that every
\* call of the list gets its insert, in list order; the insert of a call
\* with k >= 1 frames stands at depth index, one of 0 .. k - 1, on a node at
\* that depth, and has returned only from the leaf step at depth k - 1.
C19_EveryCallProcessed ==
    /\ pc # "error"
    /\ callIdx \in 0 .. Len(Calls)
    /\ pc = "done" => callIdx = Len(Calls)
    /\ (pc \in {"add", "loop"} /\ callIdx >= 1 /\ CurrentCall.stack # <<>>) =>
           /\ index \in 0 .. Len(CurrentCall.stack) - 1
           /\ pc = "add" => DepthOf(nodes, tree) = index
           /\ pc = "loop" => index = Len(CurrentCall.stack) - 1

====
